---- MODULE Spec2Model ----
(***************************************************************************)
(* Model of the Jefferson Street Python API client: the data access facade *)
(* in its two variants (src/jstdata/client.py, which performs a heartbeat  *)
(* check on construction, and src/jefferson_street_python_api/client.py,   *)
(* which does not), the response formatter and the date normalisation of   *)
(* src/jstdata/utils.py.                                                   *)
(*                                                                         *)
(* Python values are tagged records, one field name per Python type, so    *)
(* that values of different types can be told apart: [list |-> s],         *)
(* [str |-> s], [int |-> n], [dict |-> r], [none |-> TRUE].  A response    *)
(* body that is not JSON is [invalid |-> TRUE].  A record of data is a     *)
(* sequence of <<key, value>> pairs (Python dicts keep insertion order).   *)
(***************************************************************************)
EXTENDS Integers, Sequences, FiniteSets, TLC

VARIABLES
    variant,    \* which client module is in use: "jstdata" or "legacy"
    env_key,    \* JEFFERSON_STREET_API_KEY in the environment (legacy reads it)
    client,     \* the client object: [state, api_key]
    log,        \* every GET issued over the client's life, oldest first
    ncalls,     \* number of facade calls made so far
    call,       \* the last facade call: [op, args]
    response,   \* what the provider answered to the last call
    sent,       \* the GET requests the last call issued
    outcome,    \* how the last call ended: a return value or a raised exception
    fmt_in,     \* the last format_and_print call: [data, format]
    stdout,     \* what that call wrote with click.echo, as a sequence of documents
    fmt_out,    \* how that call ended
    date_in,    \* the last date_handler argument
    date_out,   \* how that call ended
    cli         \* one run of the command line: [stage, cmd, provider, exit, stderr]

facade_vars == <<variant, env_key, client, log, ncalls, call, response, sent, outcome>>
format_vars == <<fmt_in, stdout, fmt_out>>
date_vars == <<date_in, date_out>>
vars == <<facade_vars, format_vars, date_vars, cli>>

(***************************************************************************)
(* Bounds of the model.                                                    *)
(***************************************************************************)
MaxCalls == 2
MaxDateLen == 12

(***************************************************************************)
(* Python values.                                                          *)
(***************************************************************************)
PyNone == [none |-> TRUE]
PyStr(s) == [str |-> s]
PyInt(n) == [int |-> n]
PyList(s) == [list |-> s]
PyDict(d) == [dict |-> d]
NotJson == [invalid |-> TRUE]

IsNone(v) == "none" \in DOMAIN v
IsStr(v) == "str" \in DOMAIN v
IsList(v) == "list" \in DOMAIN v
IsDict(v) == "dict" \in DOMAIN v

\* a == b for two Python values
PyEq(a, b) == DOMAIN a = DOMAIN b /\ a = b

(***************************************************************************)
(* How a call ends.                                                        *)
(***************************************************************************)
Return(v) == [kind |-> "return", exc |-> "", wraps |-> "", value |-> v]
Raise(e) == [kind |-> "raise", exc |-> e, wraps |-> "", value |-> PyNone]
RaiseFrom(e, cause) == [kind |-> "raise", exc |-> e, wraps |-> cause, value |-> PyNone]
NotCalled == [kind |-> "none", exc |-> "", wraps |-> "", value |-> PyNone]

Returned(o) == o.kind = "return"
Raised(o) == o.kind = "raise"

(***************************************************************************)
(* The provider: what it may answer to one GET.                            *)
(***************************************************************************)
recA == << <<"slug", "gdp">>, <<"name", "GDP">> >>
recB == << <<"slug", "cpi">>, <<"name", "CPI">> >>

\* record sequences the provider may send, in the order it sends them
RecordSeqs == { <<>>, <<recA>>, <<recA, recB>>, <<recB, recA>> }

Envelope(R) == PyDict([records |-> PyList(R), limit |-> PyInt(2), offset |-> PyInt(0)])

Bodies ==
    {Envelope(R) : R \in RecordSeqs}
    \cup {PyDict([status |-> PyStr("ok")]), PyDict([status |-> PyStr("denied")]),
          PyDict([records |-> PyNone]), PyList(<<recA>>), NotJson}

Statuses == {200, 404, 500}

NoResponse == [kind |-> "noresponse", status |-> 0, body |-> NotJson]
NoRequest == [kind |-> "norequest", status |-> 0, body |-> NotJson]
Responses ==
    {NoResponse} \cup [kind : {"http"}, status : Statuses, body : Bodies]

\* the arguments callers pass; the client validates none of them
Keys == {PyNone, PyStr(""), PyStr("k1")}
EnvKeys == {PyNone, PyStr("envkey")}
Limits == {2, 10000}
Offsets == {0}
OrderBys == {"last_updated"}
SortOrders == {"asc", "desc"}
Metrics == {"gdp"}
SeriesLists == { <<"s1">> }

ListArgs == [limit : Limits, offset : Offsets, order_by : OrderBys, sort_order : SortOrders]
SeriesArgs ==
    [metric : Metrics, limit : Limits, offset : Offsets, order_by : OrderBys,
     sort_order : SortOrders]
ObservationArgs ==
    [series : SeriesLists, limit : Limits, offset : Offsets, order_by : OrderBys,
     sort_order : SortOrders]
CountryArgs == [limit : Limits, offset : Offsets, sort_order : SortOrders]

(***************************************************************************)
(* requests: Response.raise_for_status and Response.json, and Python's     *)
(* subscript v[key] with a string key.                                     *)
(***************************************************************************)
raise_for_status(status) == status >= 400 /\ status < 600

getitem(v, key) ==
    IF IsDict(v)
    THEN IF key \in DOMAIN v.dict THEN Return(v.dict[key]) ELSE Raise("KeyError")
    ELSE Raise("TypeError")

\* session.get(url, params=params): the one GET a _make_request call sends,
\* with the session's api-key parameter merged in
Get(self, endpoint, params) ==
    [endpoint |-> endpoint, api_key |-> self.api_key, params |-> params]

\* _make_request, after the GET was sent and the provider answered resp
make_request(resp) ==
    IF resp.kind = "noresponse" THEN Raise("ConnectionError")
    ELSE IF raise_for_status(resp.status) THEN Raise("HTTPError")
    ELSE IF resp.body = NotJson THEN Raise("JSONDecodeError")
    ELSE Return(resp.body)

\* what a method did: the GETs it sent and how it ended
Did(requests, o) == [sent |-> requests, outcome |-> o]

ListParams(args) ==
    PyDict([limit |-> PyInt(args.limit), offset |-> PyInt(args.offset),
            order_by |-> PyStr(args.order_by), sort_order |-> PyStr(args.sort_order)])
SeriesParams(args) ==
    PyDict([metric |-> PyStr(args.metric), limit |-> PyInt(args.limit),
            offset |-> PyInt(args.offset), order_by |-> PyStr(args.order_by),
            sort_order |-> PyStr(args.sort_order)])
CountryParams(args) ==
    PyDict([limit |-> PyInt(args.limit), offset |-> PyInt(args.offset),
            sort_order |-> PyStr(args.sort_order)])

(***************************************************************************)
(* src/jstdata/client.py                                                   *)
(***************************************************************************)
\* _validate_api_key that sends the heartbeat and does not test its status
validate_api_key_heartbeat_unchecked(self, resp) ==
    IF IsNone(self.api_key) THEN Did(<<>>, Raise("ApiKeyNotSetError"))
    ELSE LET r == make_request(resp)
         IN Did(<<Get(self, "heartbeat", PyNone)>>,
                IF Raised(r) THEN r ELSE Return(PyNone))

\* JeffersonStreetClient._validate_api_key, called by __init__
validate_api_key_heartbeat(self, resp) ==
    IF IsNone(self.api_key) THEN Did(<<>>, Raise("ApiKeyNotSetError"))
    ELSE LET r == make_request(resp)
             status == getitem(r.value, "status")
         IN Did(<<Get(self, "heartbeat", PyNone)>>,
                IF Raised(r) THEN r
                ELSE IF Raised(status) THEN status
                ELSE IF ~PyEq(status.value, PyStr("ok")) THEN Raise("InvalidApiKeyError")
                ELSE Return(PyNone))

\* get_metrics that forgets to unwrap the envelope
get_metrics_envelope(self, args, resp) ==
    Did(<<Get(self, "metric", ListParams(args))>>, make_request(resp))

get_metrics(self, args, resp) ==
    LET r == make_request(resp)
    IN Did(<<Get(self, "metric", ListParams(args))>>,
           IF Raised(r) THEN r ELSE getitem(r.value, "records"))

\* get_metric_series with `except Exception` in place of `except HTTPError`
get_metric_series_catch_all(self, args, resp) ==
    LET r == make_request(resp)
    IN Did(<<Get(self, "metric/series", SeriesParams(args))>>,
           IF Raised(r) THEN RaiseFrom("InvalidInputError", r.exc)
           ELSE getitem(r.value, "records"))

get_metric_series(self, args, resp) ==
    LET r == make_request(resp)
    IN Did(<<Get(self, "metric/series", SeriesParams(args))>>,
           IF Raised(r) /\ r.exc = "HTTPError" THEN RaiseFrom("InvalidInputError", "HTTPError")
           ELSE IF Raised(r) THEN r
           ELSE getitem(r.value, "records"))

\* the parameter dictionary names `metric`, which this method does not have:
\* evaluating it raises NameError before _make_request is called
get_metric_observations(self, args, resp) ==
    Did(<<>>, Raise("NameError"))

get_countries(self, args, resp) ==
    LET r == make_request(resp)
    IN Did(<<Get(self, "reference/geo/countries", CountryParams(args))>>,
           IF Raised(r) /\ r.exc = "HTTPError" THEN RaiseFrom("InvalidInputError", "HTTPError")
           ELSE IF Raised(r) THEN r
           ELSE getitem(r.value, "records"))

\* get_tickers, get_financials, get_prices: the body is `pass`
stub(self) == Did(<<>>, Return(PyNone))

(***************************************************************************)
(* src/jefferson_street_python_api/client.py                               *)
(***************************************************************************)
\* validate_api_key: the remote validation is disabled (`if False`)
validate_api_key(api_key) ==
    IF IsNone(api_key) THEN Raise("ApiKeyNotSetError") ELSE Return(PyNone)

\* __init__: a missing argument falls back to the environment variable
legacy_resolve_key(api_key, env) == IF IsNone(api_key) THEN env ELSE api_key

legacy_get_metrics(self, args, resp) ==
    Did(<<Get(self, "metric", ListParams(args))>>, make_request(resp))

\* get_metric_series, get_metric_observations, get_tickers, get_financials,
\* get_prices: the body is `pass`
legacy_stub(self) == Did(<<>>, Return(PyNone))

(***************************************************************************)
(* The facade as a state machine: one client per behaviour, constructed    *)
(* once, then called synchronously, one call at a time.                    *)
(***************************************************************************)
NoCall == [op |-> "none", args |-> PyNone]
NoClient == [state |-> "unconstructed", api_key |-> PyNone]

FormatIdle ==
    /\ fmt_in = [data |-> <<>>, format |-> ""]
    /\ stdout = <<>>
    /\ fmt_out = NotCalled
DateIdle ==
    /\ date_in = ""
    /\ date_out = [kind |-> "none", value |-> "", arg |-> ""]

CliIdle ==
    cli = [stage |-> "none", cmd |-> "", provider |-> NoRequest, exit |-> -1, stderr |-> ""]

InitFacade ==
    /\ variant \in {"jstdata", "legacy"}
    /\ env_key \in EnvKeys
    /\ client = NoClient
    /\ log = <<>>
    /\ ncalls = 0
    /\ call = NoCall
    /\ response = NoRequest
    /\ sent = <<>>
    /\ outcome = NotCalled
    /\ FormatIdle
    /\ DateIdle
    /\ CliIdle

\* the provider answered 2xx with a JSON object whose status is "ok"
AnsweredOk(resp) ==
    /\ resp.kind = "http"
    /\ resp.status \in 200..299
    /\ IsDict(resp.body)
    /\ "status" \in DOMAIN resp.body.dict
    /\ PyEq(resp.body.dict.status, PyStr("ok"))

\* the log entries of the GETs a call sent, all answered by resp: the
\* endpoint and, for a heartbeat, whether the answer was status "ok"
LogOf(requests, resp) ==
    [i \in 1..Len(requests) |->
        [endpoint |-> requests[i].endpoint,
         ok |-> requests[i].endpoint = "heartbeat" /\ AnsweredOk(resp)]]

\* the bookkeeping of one finished call: what was called, what it sent, what
\* the provider answered (if anything was sent) and how the call ended
Finish(op, args, d, resp) ==
    /\ call' = [op |-> op, args |-> args]
    /\ sent' = d.sent
    /\ outcome' = d.outcome
    /\ response' = IF d.sent = <<>> THEN NoRequest ELSE resp
    /\ log' = log \o LogOf(d.sent, resp)
    /\ UNCHANGED <<variant, env_key, format_vars, date_vars, cli>>

\* JeffersonStreetClient(api_key) of src/jstdata/client.py
Construct(key, resp) ==
    /\ variant = "jstdata"
    /\ client.state = "unconstructed"
    /\ LET self == [api_key |-> key]
           d == validate_api_key_heartbeat(self, resp)
       IN /\ client' = [state |-> IF Returned(d.outcome) THEN "ready" ELSE "failed",
                        api_key |-> key]
          /\ Finish("__init__", [api_key |-> key], d, resp)
    /\ UNCHANGED ncalls

\* JeffersonStreetClient(api_key) of src/jefferson_street_python_api/client.py
LegacyConstruct(key) ==
    /\ variant = "legacy"
    /\ client.state = "unconstructed"
    /\ LET resolved == legacy_resolve_key(key, env_key)
           o == validate_api_key(resolved)
       IN /\ client' = [state |-> IF Returned(o) THEN "ready" ELSE "failed",
                        api_key |-> resolved]
          /\ Finish("__init__", [api_key |-> key], Did(<<>>, o), NoRequest)
    /\ UNCHANGED ncalls

Ready(v) ==
    /\ variant = v
    /\ client.state = "ready"
    /\ ncalls < MaxCalls
    /\ ncalls' = ncalls + 1
    /\ UNCHANGED client

Self == [api_key |-> client.api_key]

GetMetrics(args, resp) ==
    /\ Ready("jstdata")
    /\ Finish("get_metrics", args, get_metrics(Self, args, resp), resp)

GetMetricSeries(args, resp) ==
    /\ Ready("jstdata")
    /\ Finish("get_metric_series", args, get_metric_series(Self, args, resp), resp)

GetMetricObservations(args) ==
    /\ Ready("jstdata")
    /\ Finish("get_metric_observations", args,
              get_metric_observations(Self, args, NoRequest), NoRequest)

GetCountries(args, resp) ==
    /\ Ready("jstdata")
    /\ Finish("get_countries", args, get_countries(Self, args, resp), resp)

Stub(op) ==
    /\ Ready("jstdata")
    /\ Finish(op, PyNone, stub(Self), NoRequest)

LegacyGetMetrics(args, resp) ==
    /\ Ready("legacy")
    /\ Finish("get_metrics", args, legacy_get_metrics(Self, args, resp), resp)

LegacyStub(op) ==
    /\ Ready("legacy")
    /\ Finish(op, PyNone, legacy_stub(Self), NoRequest)

StubOps == {"get_tickers", "get_financials", "get_prices"}
LegacyStubOps == StubOps \cup {"get_metric_series", "get_metric_observations"}

NextFacade ==
    \/ \E key \in Keys, resp \in Responses : Construct(key, resp)
    \/ \E key \in Keys : LegacyConstruct(key)
    \/ \E args \in ListArgs, resp \in Responses : GetMetrics(args, resp)
    \/ \E args \in SeriesArgs, resp \in Responses : GetMetricSeries(args, resp)
    \/ \E args \in ObservationArgs : GetMetricObservations(args)
    \/ \E args \in CountryArgs, resp \in Responses : GetCountries(args, resp)
    \/ \E op \in StubOps : Stub(op)
    \/ \E args \in ListArgs, resp \in Responses : LegacyGetMetrics(args, resp)
    \/ \E op \in LegacyStubOps : LegacyStub(op)

Spec == InitFacade /\ [][NextFacade]_vars

(***************************************************************************)
(* src/jstdata/utils.py: the response formatter.                           *)
(*                                                                         *)
(* A record is a sequence of <<key, value>> pairs with distinct keys; all  *)
(* values are strings here.  CSV and JSON output is modelled as text, the  *)
(* table tabulate draws as its header and rows of cells (the borders and   *)
(* the padding of the "pretty" style carry no data).                       *)
(***************************************************************************)
MaxRecords == 2
MaxFields == 2

FieldNames == {"a", "b", "c"}
Tags == {"1", "2"}

keys(rec) == [i \in 1..Len(rec) |-> rec[i][1]]
Range(s) == {s[i] : i \in 1..Len(s)}
HasKey(rec, k) == k \in Range(keys(rec))

\* rec.get(k, default)
get(rec, k, default) ==
    IF HasKey(rec, k)
    THEN rec[CHOOSE i \in 1..Len(rec) : rec[i][1] = k][2]
    ELSE default

\* sequences of distinct field names, up to MaxFields long
RECURSIVE KeyOrders(_)
KeyOrders(n) ==
    IF n = 0 THEN { <<>> }
    ELSE LET shorter == KeyOrders(n - 1)
         IN shorter \cup {Append(ks, k) : ks \in {s \in shorter : Len(s) = n - 1},
                                          k \in FieldNames} 

DistinctKeys(ks) == Cardinality(Range(ks)) = Len(ks)

\* the records of the formatter's inputs: every order of up to MaxFields
\* distinct fields; the value under key k of a record tagged t is k \o t
RecordPool ==
    {[i \in 1..Len(ks) |-> <<ks[i], ks[i] \o t>>] :
        ks \in {s \in KeyOrders(MaxFields) : Len(s) >= 1 /\ DistinctKeys(s)}, t \in Tags}

RECURSIVE SeqsUpTo(_, _)
SeqsUpTo(S, n) ==
    IF n = 0 THEN { <<>> }
    ELSE LET shorter == SeqsUpTo(S, n - 1)
         IN shorter \cup {Append(s, x) : s \in {q \in shorter : Len(q) = n - 1}, x \in S}

Formats == {"json", "csv", "pretty", "xml", "CSV"}

RECURSIVE Join(_, _)
Join(cells, sep) ==
    IF Len(cells) = 0 THEN ""
    ELSE IF Len(cells) = 1 THEN cells[1]
    ELSE cells[1] \o sep \o Join(Tail(cells), sep)

\* json.dumps of a list of dicts of strings: key order and record order kept
json_dumps(data) ==
    LET pair(p) == "\"" \o p[1] \o "\": \"" \o p[2] \o "\""
        obj(rec) == "{" \o Join([i \in 1..Len(rec) |-> pair(rec[i])], ", ") \o "}"
    IN "[" \o Join([i \in 1..Len(data) |-> obj(data[i])], ", ") \o "]"

\* the keys of all the records, each once, in the order of first appearance
RECURSIVE AppendNew(_, _)
AppendNew(cols, ks) ==
    IF Len(ks) = 0 THEN cols
    ELSE AppendNew(IF ks[1] \in Range(cols) THEN cols ELSE Append(cols, ks[1]), Tail(ks))

RECURSIVE UnionKeys(_)
UnionKeys(data) ==
    IF Len(data) = 0 THEN <<>>
    ELSE AppendNew(UnionKeys(SubSeq(data, 1, Len(data) - 1)), keys(data[Len(data)]))

NaN == "<NaN>"

\* a DataFrame whose columns are fixed by the first record alone
DataFrame_first_record(data) ==
    LET columns == IF Len(data) = 0 THEN <<>> ELSE keys(data[1])
    IN [columns |-> columns,
        rows |-> [i \in 1..Len(data) |->
                    [j \in 1..Len(columns) |-> get(data[i], columns[j], NaN)]]]

\* pd.DataFrame(list of dicts): the columns are the keys of all the records in
\* the order of first appearance; a record without a column's key holds NaN
DataFrame(data) ==
    LET columns == UnionKeys(data)
    IN [columns |-> columns,
        rows |-> [i \in 1..Len(data) |->
                    [j \in 1..Len(columns) |-> get(data[i], columns[j], NaN)]]]

\* df.to_csv(buffer, index=False): a header line and one line per row, each
\* ended by a newline; NaN is written as the empty string
df_to_csv_string(df) ==
    LET cell(v) == IF v = NaN THEN "" ELSE v
        line(row) == Join([j \in 1..Len(row) |-> cell(row[j])], ",")
    IN <<Join(df.columns, ",")>> \o [i \in 1..Len(df.rows) |-> line(df.rows[i])]

\* tabulate(rows, headers=[...]) of a list of tuples
tabulate_rows(rows, headers) == [headers |-> headers, rows |-> rows]

\* tabulate(list of dicts, headers="keys"): the columns are the keys of all
\* the rows in the order of first appearance, a missing value shows empty
tabulate_keys(data) ==
    LET columns == UnionKeys(data)
    IN [headers |-> columns,
        rows |-> [i \in 1..Len(data) |->
                    [j \in 1..Len(columns) |-> get(data[i], columns[j], "")]]]

EchoText(lines) == [text |-> lines]
EchoTable(t) == [table |-> t]
IsText(e) == "text" \in DOMAIN e
IsTable(e) == "table" \in DOMAIN e

\* format_and_print: what it echoes and how it ends
Printed(echoes, o) == [stdout |-> echoes, outcome |-> o]

\* format_and_print without the single-record case of `pretty`
format_and_print_no_transpose(response_data, format) ==
    IF format = "json"
    THEN Printed(<<EchoText(<<json_dumps(response_data)>>)>>, Return(PyNone))
    ELSE IF format = "csv"
    THEN Printed(<<EchoText(df_to_csv_string(DataFrame(response_data)))>>, Return(PyNone))
    ELSE IF format = "pretty"
    THEN Printed(<<EchoTable(tabulate_keys(response_data))>>, Return(PyNone))
    ELSE Printed(<<>>, Return(PyNone))

format_and_print(response_data, format) ==
    IF format = "json"
    THEN Printed(<<EchoText(<<json_dumps(response_data)>>)>>, Return(PyNone))
    ELSE IF format = "csv"
    THEN Printed(<<EchoText(df_to_csv_string(DataFrame(response_data)))>>, Return(PyNone))
    ELSE IF format = "pretty"
    THEN IF Len(response_data) = 1
         THEN Printed(<<EchoTable(tabulate_rows(response_data[1], <<"key", "value">>))>>,
                      Return(PyNone))
         ELSE Printed(<<EchoTable(tabulate_keys(response_data))>>, Return(PyNone))
    ELSE Printed(<<>>, Return(PyNone))

FacadeIdle ==
    /\ variant = "jstdata"
    /\ env_key = PyNone
    /\ client = NoClient
    /\ log = <<>>
    /\ ncalls = 0
    /\ call = NoCall
    /\ response = NoRequest
    /\ sent = <<>>
    /\ outcome = NotCalled

InitFormat ==
    /\ fmt_in \in [data : SeqsUpTo(RecordPool, MaxRecords), format : Formats]
    /\ stdout = <<>>
    /\ fmt_out = NotCalled
    /\ FacadeIdle
    /\ DateIdle
    /\ CliIdle

FormatAndPrint ==
    /\ fmt_out = NotCalled
    /\ LET p == format_and_print(fmt_in.data, fmt_in.format)
       IN /\ stdout' = p.stdout
          /\ fmt_out' = p.outcome
    /\ UNCHANGED <<fmt_in, facade_vars, date_vars, cli>>

SpecFormat == InitFormat /\ [][FormatAndPrint]_vars

(***************************************************************************)
(* src/jstdata/utils.py: date_handler.                                     *)
(***************************************************************************)
DateChars == {"2", "x"}

\* every string of DateChars up to n characters long
RECURSIVE Strings(_)
Strings(n) ==
    IF n = 0 THEN {""}
    ELSE LET shorter == Strings(n - 1)
         IN shorter \cup {s \o c : s \in {q \in shorter : Len(q) = n - 1}, c \in DateChars}

DateReturn(s) == [kind |-> "return", value |-> s, arg |-> ""]
\* raise ValueError(f"Invalid date format: {date_str}")
DateRaise(e, s) == [kind |-> "raise", value |-> e, arg |-> s]

\* date_handler that takes only the 10 character form as already complete
date_handler_no_timestamp(date_str) ==
    IF Len(date_str) = 10 THEN DateReturn(date_str)
    ELSE IF Len(date_str) = 4 THEN DateReturn(date_str \o "-01-01")
    ELSE IF Len(date_str) = 7 THEN DateReturn(date_str \o "-01")
    ELSE DateRaise("ValueError", date_str)

date_handler(date_str) ==
    IF Len(date_str) \in {10, 11} THEN DateReturn(date_str)
    ELSE IF Len(date_str) = 4 THEN DateReturn(date_str \o "-01-01")
    ELSE IF Len(date_str) = 7 THEN DateReturn(date_str \o "-01")
    ELSE DateRaise("ValueError", date_str)

InitDate ==
    /\ date_in \in Strings(MaxDateLen)
    /\ date_out = [kind |-> "none", value |-> "", arg |-> ""]
    /\ FacadeIdle
    /\ FormatIdle
    /\ CliIdle

DateHandler ==
    /\ date_out.kind = "none"
    /\ date_out' = date_handler(date_in)
    /\ UNCHANGED <<date_in, facade_vars, format_vars, cli>>

SpecDate == InitDate /\ [][DateHandler]_vars

(***************************************************************************)
(* src/jstdata/cli.py: one run of the command line.  Importing the module  *)
(* reads the credential and constructs the client; then click dispatches   *)
(* one subcommand.  No handler catches anything, and click passes on every *)
(* exception that is not its own: the interpreter prints the traceback and *)
(* exits with status 1.                                                    *)
(***************************************************************************)
\* what the provider is disposed to answer to the data request of this run;
\* the records it sends are always a list
CliResponses ==
    {NoResponse}
    \cup [kind : {"http"}, status : Statuses,
          body : {Envelope(R) : R \in RecordSeqs} \cup {PyDict([status |-> PyStr("ok")])}]

CliLimits == {100}
CliStarts == {"", "2024", "24"}
CliEnds == {"", "2024-05"}
Expanded == {TRUE, FALSE}

\* positional parameters get_metrics takes after self, and the arguments
\* list_metrics passes to it
GetMetricsParameters == 4
ListMetricsArguments == 5

Traceback(o) == "Traceback (most recent call last): " \o o.exc

InitCli ==
    /\ variant = "jstdata"
    /\ env_key \in EnvKeys
    /\ client = NoClient
    /\ log = <<>>
    /\ ncalls = 0
    /\ call = NoCall
    /\ response = NoRequest
    /\ sent = <<>>
    /\ outcome = NotCalled
    /\ FormatIdle
    /\ DateIdle
    /\ cli \in [stage : {"start"}, cmd : {""}, provider : CliResponses, exit : {-1},
                stderr : {""}]

\* lines 6-10: the module level code that runs on import
Import(resp) ==
    /\ cli.stage = "start"
    /\ LET self == [api_key |-> env_key]
           d == IF IsNone(env_key) THEN Did(<<>>, Raise("Exception"))
                ELSE validate_api_key_heartbeat(self, resp)
       IN /\ client' = IF IsNone(env_key) THEN client
                       ELSE [state |-> IF Returned(d.outcome) THEN "ready" ELSE "failed",
                             api_key |-> env_key]
          /\ call' = IF IsNone(env_key) THEN call
                     ELSE [op |-> "__init__", args |-> [api_key |-> env_key]]
          /\ sent' = d.sent
          /\ outcome' = d.outcome
          /\ response' = IF d.sent = <<>> THEN NoRequest ELSE resp
          /\ log' = log \o LogOf(d.sent, resp)
          /\ cli' = IF Raised(d.outcome)
                    THEN [cli EXCEPT !.stage = "exited", !.cmd = "import", !.exit = 1,
                                     !.stderr = Traceback(d.outcome)]
                    ELSE [cli EXCEPT !.stage = "imported"]
    /\ UNCHANGED <<variant, env_key, ncalls, format_vars, date_vars>>

\* the end of a command: c is the client call it made (if any), d what that
\* call did, data what the command hands to format_and_print when the call
\* returned
CliEnd(cmd, c, d, data, format) ==
    /\ cli.stage = "imported"
    /\ call' = c
    /\ sent' = d.sent
    /\ outcome' = d.outcome
    /\ response' = IF d.sent = <<>> THEN NoRequest ELSE cli.provider
    /\ log' = log \o LogOf(d.sent, cli.provider)
    /\ ncalls' = ncalls + 1
    /\ IF Returned(d.outcome)
       THEN LET p == format_and_print(data, format)
            IN /\ fmt_in' = [data |-> data, format |-> format]
               /\ stdout' = p.stdout
               /\ fmt_out' = p.outcome
               /\ cli' = [cli EXCEPT !.stage = "exited", !.cmd = cmd, !.exit = 0]
       ELSE /\ UNCHANGED format_vars
            /\ cli' = [cli EXCEPT !.stage = "exited", !.cmd = cmd, !.exit = 1,
                                  !.stderr = Traceback(d.outcome)]
    /\ UNCHANGED <<variant, env_key, client>>

RecordsOf(o) == IF Returned(o) THEN o.value.list ELSE <<>>

\* [{'slug': m['slug']} for m in metrics]
condensed(metrics) ==
    IF \E i \in 1..Len(metrics) : ~HasKey(metrics[i], "slug")
    THEN Raise("KeyError")
    ELSE Return(PyList([i \in 1..Len(metrics) |->
                           << <<"slug", get(metrics[i], "slug", "")>> >>]))

\* `metric ls`: client.get_metrics(None, limit, offset, order_by, sort_order)
\* passes one argument more than get_metrics takes
list_metrics(self, args, expanded, resp) ==
    IF ListMetricsArguments > GetMetricsParameters
    THEN Did(<<>>, Raise("TypeError"))
    ELSE LET d == get_metrics(self, args, resp)
         IN IF Raised(d.outcome) \/ expanded THEN d
            ELSE Did(d.sent, condensed(d.outcome.value.list))

ListMetrics(args, expanded, format) ==
    LET d == list_metrics(Self, args, expanded, cli.provider)
    IN /\ CliEnd("metric ls", [op |-> "get_metrics", args |-> args], d,
                 RecordsOf(d.outcome), format)
       /\ UNCHANGED date_vars

\* `metric show METRIC`: client.get_metrics(metric) binds the slug to limit
show_metric(self, metric, resp) ==
    Did(<<Get(self, "metric",
              PyDict([limit |-> PyStr(metric), offset |-> PyInt(0),
                      order_by |-> PyStr("last_updated"), sort_order |-> PyStr("desc")]))>>,
        get_metrics(self, [limit |-> 0, offset |-> 0, order_by |-> "last_updated",
                           sort_order |-> "desc"], resp).outcome)

ShowMetric(metric, format) ==
    LET d == show_metric(Self, metric, cli.provider)
    IN /\ CliEnd("metric show", [op |-> "get_metrics", args |-> [limit |-> metric]], d,
                 RecordsOf(d.outcome), format)
       /\ UNCHANGED date_vars

\* `metric dimensions`, `entities groups`, `entities values`, `entities links`
\* call get_metric_dimensions, get_entity_groups, get_entities and
\* get_entity_metrics, which the client does not have
MissingMethods ==
    [cmd : {"metric dimensions"}, op : {"get_metric_dimensions"}]
    \cup [cmd : {"entities groups"}, op : {"get_entity_groups"}]
    \cup [cmd : {"entities values"}, op : {"get_entities"}]
    \cup [cmd : {"entities links"}, op : {"get_entity_metrics"}]

missing_method(self) == Did(<<>>, Raise("AttributeError"))

CallMissingMethod(m, format) ==
    /\ CliEnd(m.cmd, [op |-> m.op, args |-> PyNone], missing_method(Self), <<>>, format)
    /\ UNCHANGED date_vars

\* `entities list-series METRIC`
ListSeries(args, format) ==
    LET d == get_metric_series(Self, args, cli.provider)
    IN /\ CliEnd("entities list-series", [op |-> "get_metric_series", args |-> args], d,
                 RecordsOf(d.outcome), format)
       /\ UNCHANGED date_vars

\* `entities show`: client.get_countries(limit, offset)
ShowCountries(args, format) ==
    LET d == get_countries(Self, args, cli.provider)
    IN /\ CliEnd("entities show", [op |-> "get_countries", args |-> args], d,
                 RecordsOf(d.outcome), format)
       /\ UNCHANGED date_vars

\* `query by-id SERIES...`: date_handler on --start and --end when given, then
\* client.get_metric_observations
GetObservations(args, start, end, format) ==
    LET s == IF start # "" THEN date_handler(start) ELSE DateReturn("")
        e == IF end # "" THEN date_handler(end) ELSE DateReturn("")
        bad == s.kind = "raise" \/ e.kind = "raise"
        d == IF bad THEN Did(<<>>, Raise("ValueError"))
             ELSE get_metric_observations(Self, args, cli.provider)
    IN /\ CliEnd("query by-id",
                 IF bad THEN NoCall ELSE [op |-> "get_metric_observations", args |-> args],
                 d, RecordsOf(d.outcome), format)
       /\ date_in' = IF start = "" /\ end = "" THEN date_in
                     ELSE IF s.kind = "raise" \/ end = "" THEN start ELSE end
       /\ date_out' = IF start = "" /\ end = "" THEN date_out
                      ELSE IF s.kind = "raise" \/ end = "" THEN s ELSE e

CliListArgs ==
    [limit : CliLimits, offset : Offsets, order_by : OrderBys, sort_order : SortOrders]
CliSeriesArgs ==
    [metric : Metrics, limit : CliLimits, offset : Offsets, order_by : OrderBys,
     sort_order : SortOrders]
CliObservationArgs ==
    [series : SeriesLists, limit : CliLimits, offset : Offsets, order_by : {"id"},
     sort_order : SortOrders]
CliCountryArgs == [limit : CliLimits, offset : Offsets, sort_order : {"asc"}]

NextCli ==
    \/ \E resp \in Responses : Import(resp)
    \/ \E args \in CliListArgs, x \in Expanded, f \in Formats : ListMetrics(args, x, f)
    \/ \E m \in Metrics, f \in Formats : ShowMetric(m, f)
    \/ \E m \in MissingMethods, f \in Formats : CallMissingMethod(m, f)
    \/ \E args \in CliSeriesArgs, f \in Formats : ListSeries(args, f)
    \/ \E args \in CliCountryArgs, f \in Formats : ShowCountries(args, f)
    \/ \E args \in CliObservationArgs, s \in CliStarts, e \in CliEnds, f \in Formats :
          GetObservations(args, s, e, f)

SpecCli == InitCli /\ [][NextCli]_vars

(***************************************************************************)
(* Properties of the facade (Spec).                                        *)
(*                                                                         *)
(* The specification's error kinds are the code's exceptions under other   *)
(* names: CredentialMissingError is ApiKeyNotSetError, InvalidCredential-  *)
(* Error is InvalidApiKeyError, InvalidInputError keeps its name, and the  *)
(* transport error is the ConnectionError of requests, which no method     *)
(* catches.  HTTPError, KeyError, TypeError, NameError and JSONDecodeError *)
(* are no error kind of the facade.                                        *)
(***************************************************************************)
DataOps == {"get_metrics", "get_metric_series", "get_metric_observations", "get_countries"}
Answered == response.kind = "http"
Is2xx == Answered /\ response.status \in 200..299
HasRecordsArray(body) ==
    /\ IsDict(body)
    /\ "records" \in DOMAIN body.dict
    /\ IsList(body.dict.records)

\* C1: whenever the provider answers a data operation with a non-2xx status,
\* the operation fails with InvalidInputError wrapping the transport's
\* HTTP error.
C1_NonSuccessRaisesInvalidInput ==
    (call.op \in DataOps /\ Answered /\ ~Is2xx)
        => outcome = RaiseFrom("InvalidInputError", "HTTPError")

\* C2: every call of a data operation on a constructed client issues exactly
\* one GET, never zero and never more, carrying the api-key and the caller's
\* limit, offset and sort_order verbatim.  (How such a call may end, the last
\* clause of the claim, is what C1, C4 and C6 state case by case.)
C2_ExactlyOneGetPerCall ==
    call.op \in DataOps =>
        /\ Len(sent) = 1
        /\ sent[1].api_key = client.api_key
        /\ sent[1].params.dict.limit = PyInt(call.args.limit)
        /\ sent[1].params.dict.offset = PyInt(call.args.offset)
        /\ sent[1].params.dict.sort_order = PyStr(call.args.sort_order)

C4_NoRecordsIsMalformed ==
    (call.op \in DataOps /\ Is2xx /\ response.body # NotJson
        /\ ~HasRecordsArray(response.body))
        => outcome = Raise("MalformedResponseError")

\* C5: construction succeeds only with a non-empty credential string: a
\* client whose credential is absent or the empty string is never usable.
C5_ReadyOnlyWithNonEmptyCredential ==
    client.state = "ready" => (IsStr(client.api_key) /\ client.api_key.str # "")

\* C6: a data operation whose request gets no response fails with the
\* transport error, which is not InvalidInputError, and a non-2xx answer is
\* never reported with the transport error.
C6_TransportErrorDistinct ==
    call.op \in DataOps =>
        /\ response = NoResponse =>
              /\ outcome = Raise("ConnectionError")
              /\ outcome.exc # "InvalidInputError"
        /\ (Answered /\ ~Is2xx) =>
              /\ Raised(outcome)
              /\ outcome.exc # "ConnectionError"

C6_Witness ==
    /\ call.op = "get_metric_series"
    /\ Len(sent) = 1
    /\ response = NoResponse
    /\ outcome = Raise("ConnectionError")

(***************************************************************************)
(* Properties of the formatter (SpecFormat).                               *)
(***************************************************************************)
Formatted == fmt_out # NotCalled
KnownFormats == {"json", "csv", "pretty"}

\* C7: for every format other than json, csv and pretty the formatter fails
\* with UnsupportedFormatError; it never completes normally.
C7_UnknownFormatRaises ==
    (Formatted /\ fmt_in.format \notin KnownFormats)
        => (Raised(fmt_out) /\ fmt_out.exc = "UnsupportedFormatError")

\* all the records hold the same set of keys
Uniform(data) == \A i \in 1..Len(data) : Range(keys(data[i])) = Range(keys(data[1]))

\* C8: the `pretty` table of one record has the columns key and value and one
\* row per field, in field order; the table of N >= 2 uniform records has
\* the first record's keys as its header and N rows in record order, each
\* cell holding the record's value under the column's key.
C8_PrettyShape ==
    (Formatted /\ fmt_in.format = "pretty") =>
        LET data == fmt_in.data
            N == Len(data)
        IN /\ Len(stdout) = 1
           /\ IsTable(stdout[1])
           /\ N = 1 =>
                /\ stdout[1].table.headers = <<"key", "value">>
                /\ Len(stdout[1].table.rows) = Len(data[1])
                /\ \A i \in 1..Len(data[1]) :
                      stdout[1].table.rows[i] = <<data[1][i][1], data[1][i][2]>>
           /\ (N >= 2 /\ Uniform(data)) =>
                /\ stdout[1].table.headers = keys(data[1])
                /\ Len(stdout[1].table.rows) = N
                /\ \A i \in 1..N :
                      /\ Len(stdout[1].table.rows[i]) = Len(data[1])
                      /\ \A j \in 1..Len(data[1]) :
                            <<data[1][j][1], stdout[1].table.rows[i][j]>> \in Range(data[i])

C8_Witness ==
    /\ Formatted
    /\ fmt_in.format = "pretty"
    /\ Len(fmt_in.data) >= 2
    /\ Uniform(fmt_in.data)
    /\ Len(fmt_in.data[1]) = 2
    /\ keys(fmt_in.data[2]) # keys(fmt_in.data[1])
    /\ Len(stdout[1].table.rows) = Len(fmt_in.data)

\* the cells of record rec under the columns cols, empty where rec has no
\* such key, as one CSV line
CsvLine(rec, cols) ==
    Join([j \in 1..Len(cols) |->
            IF \E p \in Range(rec) : p[1] = cols[j]
            THEN (CHOOSE p \in Range(rec) : p[1] = cols[j])[2]
            ELSE ""], ",")

CsvRowsUnder(cols) ==
    LET data == fmt_in.data
        lines == stdout[1].text
    IN /\ lines[1] = Join(cols, ",")
       /\ Len(lines) = Len(data) + 1
       /\ \A i \in 1..Len(data) : lines[i + 1] = CsvLine(data[i], cols)

\* C9 as claimed: the header of the `csv` output of a non-empty record
\* sequence is exactly the first record's keys, in order; there is one row
\* per record, empty where a record lacks a header key, and a value under a
\* key the first record lacks adds no column.
C9_HeaderIsFirstRecord ==
    (Formatted /\ fmt_in.format = "csv" /\ Len(fmt_in.data) >= 1)
        => CsvRowsUnder(keys(fmt_in.data[1]))

\* where key k first appears in data: <<record index, position in the record>>
FirstAt(data, k) ==
    LET i == CHOOSE n \in 1..Len(data) :
                 HasKey(data[n], k) /\ \A m \in 1..(n - 1) : ~HasKey(data[m], k)
    IN <<i, CHOOSE j \in 1..Len(data[i]) : data[i][j][1] = k>>

Before(a, b) == a[1] < b[1] \/ (a[1] = b[1] /\ a[2] < b[2])

\* cols lists every key of data once, in the order of first appearance
FirstAppearanceOrder(cols, data) ==
    /\ DistinctKeys(cols)
    /\ Range(cols) = UNION {Range(keys(data[i])) : i \in 1..Len(data)}
    /\ \A x, y \in 1..Len(cols) :
          x < y => Before(FirstAt(data, cols[x]), FirstAt(data, cols[y]))

\* C9 as amended: the header holds the first record's keys in that record's
\* order, followed by every key that first appears in a later record, in the
\* order of first appearance; there is one row per record, with an empty cell
\* where the record lacks a column's key.  A value under a key the first
\* record lacks is kept: it adds a column.
C9_HeaderIsUnionOfKeys ==
    (Formatted /\ fmt_in.format = "csv" /\ Len(fmt_in.data) >= 1) =>
        /\ Len(stdout) = 1
        /\ IsText(stdout[1])
        /\ \E cols \in KeyOrders(Cardinality(FieldNames)) :
              /\ FirstAppearanceOrder(cols, fmt_in.data)
              /\ SubSeq(cols, 1, Len(fmt_in.data[1])) = keys(fmt_in.data[1])
              /\ CsvRowsUnder(cols)

C9_Witness ==
    /\ Formatted
    /\ fmt_in.format = "csv"
    /\ Len(fmt_in.data) = 2
    /\ keys(fmt_in.data[1]) = <<"a", "b">>
    /\ keys(fmt_in.data[2]) = <<"c", "a">>
    /\ stdout[1].text[1] = "a,b,c"
    /\ stdout[1].text[3] \in {"a1,,c1", "a2,,c2"}

(***************************************************************************)
(* Properties of date_handler (SpecDate).                                  *)
(***************************************************************************)
\* C10: date_handler dispatches on the length of its argument alone: 10 or
\* 11 characters come back unchanged, 4 get "-01-01" appended, 7 get "-01"
\* appended, and any other length raises the invalid-date error (ValueError)
\* carrying the argument; the characters are never looked at.
C10_LengthDispatch ==
    date_out.kind # "none" =>
        LET n == Len(date_in)
        IN /\ n \in {10, 11} => date_out = [kind |-> "return", value |-> date_in, arg |-> ""]
           /\ n = 4 => date_out = [kind |-> "return", value |-> date_in \o "-01-01", arg |-> ""]
           /\ n = 7 => date_out = [kind |-> "return", value |-> date_in \o "-01", arg |-> ""]
           /\ n \notin {4, 7, 10, 11} =>
                 date_out = [kind |-> "raise", value |-> "ValueError", arg |-> date_in]

C10_Witness ==
    /\ date_in = "xxxx"
    /\ date_out = [kind |-> "return", value |-> "xxxx-01-01", arg |-> ""]

(***************************************************************************)
(* Properties of the command line (SpecCli).                               *)
(***************************************************************************)
Exited == cli.stage = "exited"
ProviderHealthy ==
    /\ cli.provider.kind = "http"
    /\ cli.provider.status \in 200..299
    /\ HasRecordsArray(cli.provider.body)

\* C11: a run of `metric ls` or `query by-id` (with well-formed dates and a
\* known format) against a provider that answers the data request with a 2xx
\* records envelope prints the formatted records and exits with status zero.
\* (The other half of the claim, a non-zero exit with a message when the
\* facade operation fails, is what the runs that end with a traceback show.)
C11_HealthyProviderExitsZero ==
    (/\ Exited
     /\ cli.cmd \in {"metric ls", "query by-id"}
     /\ date_out.kind # "raise"
     /\ ProviderHealthy)
        => /\ cli.exit = 0
           /\ fmt_in.format \in KnownFormats => Len(stdout) = 1

(***************************************************************************)
(* The heartbeat of src/jstdata/client.py (Spec).                          *)
(***************************************************************************)
\* C12: in the variant with the liveness check, a construction with a
\* credential sends the heartbeat and nothing else, so the heartbeat is the
\* client's first request; when the provider answers it with a status other
\* than "ok" the construction fails with InvalidCredentialError
\* (InvalidApiKeyError); and every request to a data endpoint comes after a
\* heartbeat of the same client that was answered with status "ok".
C12_HeartbeatGuardsData ==
    variant = "jstdata" =>
        /\ (call.op = "__init__" /\ ~IsNone(call.args.api_key)) =>
              /\ Len(sent) = 1
              /\ sent[1].endpoint = "heartbeat"
        /\ Len(log) >= 1 => log[1].endpoint = "heartbeat"
        /\ (/\ call.op = "__init__"
            /\ Is2xx
            /\ IsDict(response.body)
            /\ "status" \in DOMAIN response.body.dict
            /\ ~PyEq(response.body.dict.status, PyStr("ok")))
              => /\ outcome = Raise("InvalidApiKeyError")
                 /\ client.state = "failed"
        /\ \A i \in 1..Len(log) :
              log[i].endpoint # "heartbeat"
                  => \E j \in 1..(i - 1) : log[j].endpoint = "heartbeat" /\ log[j].ok

C12_Witness ==
    /\ variant = "jstdata"
    /\ Len(log) = 2
    /\ log[1] = [endpoint |-> "heartbeat", ok |-> TRUE]
    /\ log[2].endpoint = "metric/series"
    /\ call.op = "get_metric_series"

====
